---- MODULE Spec2Model ----
(***************************************************************************)
(* Model of src/index.webhook.js (the copy with market-cap alerts, lines   *)
(* 1-564): the block handler registered with provider.on('block'), the     *)
(* market-cap cycle checkMarketCapAlerts, and the chat handlers that       *)
(* change the registries.                                                  *)
(*                                                                         *)
(* JavaScript runs each handler without preemption up to its next await.   *)
(* One action of this module is one such run: from the point where a       *)
(* handler is entered or resumed to the point where it awaits again or     *)
(* returns.  Handlers that are suspended at an await interleave freely.    *)
(***************************************************************************)
EXTENDS Integers, Sequences, FiniteSets, TLC

(***************************************************************************)
(* Bounds of the model.                                                    *)
(***************************************************************************)
MaxHeight == 3
MaxUsers == 2
MaxHandlers == 2
MaxCycles == 1
MaxTicks == 2
\* the clock's value at the start, and what one Tick adds to it (milliseconds)
StartTime == 1000000
TickMs == 150000

Heights == 1..MaxHeight
Users == 1..MaxUsers
Slots == 1..MaxHandlers
Cycles == 1..MaxCycles
Tokens == {"A", "B"}

(***************************************************************************)
(* Values of the program.                                                  *)
(***************************************************************************)
\* mcUsdThreshold: null
NULL == -1
\* the sentinel toText puts in place of an absent field
UNSET == "none"

\* a JavaScript value used as a condition: null and 0 are falsy
Truthy(n) == n # NULL /\ n # 0

\* Set.prototype.add on a set kept in insertion order
SetAdd(s, x) == IF \E i \in 1..Len(s) : s[i] = x THEN s ELSE Append(s, x)

\* Set.prototype.has
SetHas(s, x) == \E i \in 1..Len(s) : s[i] = x

\* Set.prototype.delete
SetDelete(s, x) == SelectSeq(s, LAMBDA y : y # x)

\* the position of x in s, 0 when absent
IndexOf(s, x) == IF SetHas(s, x) THEN CHOOSE i \in 1..Len(s) : s[i] = x ELSE 0

Range(s) == {s[i] : i \in 1..Len(s)}

(***************************************************************************)
(* The chain: the factory's Deployed logs at each height.  A log whose ok  *)
(* is FALSE is one that parseLog rejects.                                  *)
(***************************************************************************)
LogA1 == [addr |-> "A", amount |-> 1, ok |-> TRUE]
LogB1 == [addr |-> "B", amount |-> 1, ok |-> TRUE]
LogBad == [addr |-> "A", amount |-> 0, ok |-> FALSE]

LogLists == {<<>>, <<LogA1, LogBad, LogB1>>}

\* key = `${addr}:${amount.toString()}`
KeyOf(log) == <<log.addr, log.amount>>

Keys == Tokens \X {1}

VARIABLES
  chain,            \* the logs the factory emitted at each height
  pool,             \* what the chain answers about each token and its pool
  now,              \* Date.now()
  lastSignal,       \* height of the latest 'block' event (0: none yet)
  lastProcessed,    \* let lastProcessed = 0
  sentKeys,         \* const sentKeys = new Set()
  subscribedUsers,  \* const subscribedUsers = new Set(), in insertion order
  userPushPrefs,    \* const userPushPrefs = new Map()
  marketCapAlerts,  \* const marketCapAlerts = new Map(), in insertion order
  lastMcCheck,      \* let lastMcCheck = 0
  handlers,         \* the block handlers in flight
  cycles,           \* the market-cap cycles in flight
  firstSignal,      \* history: height of the first 'block' event (0: none yet)
  queryOutcome,     \* history: how the latest getLogs of each handler slot ended
  scanCount,        \* history: successful log queries that covered each height
  attempts,         \* history: sendMessage calls of the block handler per key and user
  invocation,       \* history: the latest call of checkMarketCapAlerts
  checkTimes,       \* history: the times at which a call passed the throttle
  alertInFlight,    \* history: the alert each cycle has handed to sendMessage
  deleted,          \* history: the tokens whose entry marketCapAlerts.delete() removed
  cycleLog,         \* history: what each cycle has checked, computed and sent since it started
  sendOk            \* history: whether the latest settled send of a block handler resolved

chainVars == <<chain, pool>>
blockVars == <<lastSignal, lastProcessed, sentKeys, handlers>>
blockHist == <<firstSignal, queryOutcome, scanCount, attempts, sendOk>>
mcVars == <<lastMcCheck, cycles>>
mcHist == <<invocation, checkTimes, alertInFlight, cycleLog>>

vars == <<chain, pool, now, lastSignal, lastProcessed, sentKeys, subscribedUsers,
          userPushPrefs, marketCapAlerts, lastMcCheck, handlers, cycles, firstSignal,
          queryOutcome, scanCount, attempts, invocation, checkTimes, alertInFlight, deleted,
          cycleLog, sendOk>>

(***************************************************************************)
(* SubscriberRegistry.                                                     *)
(***************************************************************************)
DefaultPrefs == [requireMediaLink |-> FALSE, mcUsdThreshold |-> NULL, lang |-> "en"]

\* userPushPrefs after getPrefs(id) for every id of ids: an absent entry is created
WithPrefs(prefs, ids) ==
  [id \in (DOMAIN prefs) \cup ids |-> IF id \in DOMAIN prefs THEN prefs[id] ELSE DefaultPrefs]

\* the object getPrefs(id) returns
getPrefs(prefs, id) == WithPrefs(prefs, {id})[id]

(***************************************************************************)
(* AlertRegistry: marketCapAlerts is a Map in insertion order, each entry  *)
(* [addr, users] with users a Set in insertion order.                      *)
(***************************************************************************)
HasEntry(m, t) == \E i \in 1..Len(m) : m[i].addr = t

EntryIndex(m, t) == IF HasEntry(m, t) THEN CHOOSE i \in 1..Len(m) : m[i].addr = t ELSE 0

UsersOf(m, t) == IF HasEntry(m, t) THEN m[EntryIndex(m, t)].users ELSE <<>>

addToMarketCapAlerts(m, t, u) ==
  LET m1 == IF HasEntry(m, t) THEN m ELSE Append(m, [addr |-> t, users |-> <<>>])
      i == EntryIndex(m1, t)
  IN [m1 EXCEPT ![i].users = SetAdd(@, u)]

\* a removal that leaves the emptied entry in the Map
removeKeepsEntry(m, t, u) ==
  IF ~HasEntry(m, t) THEN m
  ELSE [m EXCEPT ![EntryIndex(m, t)].users = SetDelete(@, u)]

\* a removal that drops the token's entry with everyone in it
removeEveryone(m, t, u) == SelectSeq(m, LAMBDA e : e.addr # t)

removeFromMarketCapAlerts(m, t, u) ==
  IF ~HasEntry(m, t) THEN m
  ELSE LET i == EntryIndex(m, t)
           left == SetDelete(m[i].users, u)
       IN IF Len(left) = 0
          THEN SelectSeq(m, LAMBDA e : e.addr # t)
          ELSE [m EXCEPT ![i].users = left]

(***************************************************************************)
(* MetadataEnricher.  A raw result is "" when the call failed (the catch   *)
(* gives '') or returned the empty string, " " when it returned blanks,    *)
(* and a text otherwise.                                                   *)
(***************************************************************************)
Trim(v) == IF v = " " THEN "" ELSE v

\* a text that is shown as fetched, without the placeholder
toTextAsIs(v) == v

toText(v) == IF v # "" /\ Trim(v) # "" THEN v ELSE UNSET

decimalsText(raw) == IF raw # "" THEN raw ELSE UNSET

Enriched(raw) ==
  [symbol |-> toText(raw.symbol), decimals |-> decimalsText(raw.decimals),
   web |-> toText(raw.web), tg |-> toText(raw.tg), tw |-> toText(raw.tw),
   desc |-> toText(raw.desc)]

NoMeta == Enriched([symbol |-> "", decimals |-> "", web |-> "", tg |-> "", tw |-> "", desc |-> ""])

\* a filter that finds a link in every notification
hasMediaAlways(meta) == TRUE

\* [web, tg, tw].some((v) => v && v !== UNSET)
hasMedia(meta) == \E v \in {meta.web, meta.tg, meta.tw} : v # "" /\ v # UNSET

(***************************************************************************)
(* The block handler, provider.on('block', async (bn) => ...).             *)
(***************************************************************************)
Idle == [pc |-> "idle", from |-> 0, to |-> 0, logs |-> <<>>, cur |-> LogBad,
         meta |-> NoMeta, ui |-> 0]

RECURSIVE LogsIn(_, _, _)
\* what getLogs returns for [from, to]: the logs of the range, in order
LogsIn(ch, from, to) ==
  IF from > to THEN <<>> ELSE ch[from] \o LogsIn(ch, from + 1, to)

\* a membership test that never finds the key
AlreadySentNever(keys, key) == FALSE

\* sentKeys.has(key)
AlreadySent(keys, key) == key \in keys

\* an insertion that is lost
RecordKeyLost(keys, key) == keys

\* sentKeys.add(key)
RecordKey(keys, key) == keys \cup {key}

\* a loop over logs that ends at a log parseLog rejects
DropAfterBad(logs, keys) ==
  IF logs = <<>> \/ ~Head(logs).ok THEN <<>> ELSE logs

RECURSIVE DropSkipped(_, _)
\* the loop over logs up to the first log that is decoded and not yet sent:
\* a log parseLog rejects is dropped by the catch, a known key by continue
DropSkipped(logs, keys) ==
  IF logs = <<>> THEN <<>>
  ELSE IF ~Head(logs).ok \/ AlreadySent(keys, KeyOf(Head(logs)))
       THEN DropSkipped(Tail(logs), keys)
       ELSE logs

\* the cursor's value after `if (!lastProcessed) lastProcessed = bn - 1`
InitCursor(lp, bn) == IF lp = 0 THEN bn - 1 ELSE lp

\* the first subscriber at position i or later who passes the media filter, 0 if none
NextRecipient(subs, prefs, meta, i) ==
  LET pass == {j \in i..Len(subs) :
                 ~(getPrefs(prefs, subs[j]).requireMediaLink /\ ~hasMedia(meta))}
  IN IF pass = {} THEN 0 ELSE CHOOSE j \in pass : \A k \in pass : j <= k

\* a history counter, which stops counting at 2
Bump(n) == IF n < 2 THEN n + 1 ELSE n

\* the loop over logs from `logs` on, up to the next await or to the end of
\* the handler, where the cursor is written
ContinueLogs(h, logs) ==
  LET rest == DropSkipped(logs, sentKeys) IN
  IF rest = <<>>
  THEN /\ lastProcessed' = handlers[h].to
       /\ sentKeys' = sentKeys
       /\ handlers' = [handlers EXCEPT ![h] = Idle]
  ELSE /\ lastProcessed' = lastProcessed
       /\ sentKeys' = RecordKey(sentKeys, KeyOf(Head(rest)))
       /\ handlers' = [handlers EXCEPT ![h] =
                         [@ EXCEPT !.pc = "enrich", !.cur = Head(rest),
                                   !.logs = Tail(rest), !.meta = NoMeta, !.ui = 0]]

\* the loop over subscribedUsers from position i on, up to the next
\* sendMessage or, when no subscriber is left, on to the next log
ContinueFanout(h, meta, i) ==
  LET j == NextRecipient(subscribedUsers, userPushPrefs, meta, i)
      seen == {subscribedUsers[k] : k \in i..(IF j = 0 THEN Len(subscribedUsers) ELSE j)}
  IN /\ userPushPrefs' = WithPrefs(userPushPrefs, seen)
     /\ IF j = 0
        THEN /\ ContinueLogs(h, handlers[h].logs)
             /\ UNCHANGED attempts
        ELSE /\ handlers' = [handlers EXCEPT ![h] =
                               [@ EXCEPT !.pc = "send", !.meta = meta, !.ui = j]]
             /\ attempts' = [attempts EXCEPT
                               ![<<KeyOf(handlers[h].cur), subscribedUsers[j]>>] = Bump(@)]
             /\ UNCHANGED <<lastProcessed, sentKeys>>

FreeSlot == IF \E h \in Slots : handlers[h].pc = "idle"
            THEN CHOOSE h \in Slots : handlers[h].pc = "idle" /\
                        \A g \in Slots : handlers[g].pc = "idle" => h <= g
            ELSE 0

\* a 'block' event: the handler runs to its await of getLogs, or returns
BlockSignal(bn) ==
  LET lp == InitCursor(lastProcessed, bn)
      from == lp + 1
      to == bn
  IN /\ bn >= lastSignal
     /\ lastSignal' = bn
     /\ firstSignal' = IF firstSignal = 0 THEN bn ELSE firstSignal
     /\ lastProcessed' = lp
     /\ IF from > to
        THEN UNCHANGED <<handlers, queryOutcome>>
        ELSE /\ FreeSlot # 0
             /\ handlers' = [handlers EXCEPT ![FreeSlot] =
                               [Idle EXCEPT !.pc = "getLogs", !.from = from, !.to = to]]
             /\ queryOutcome' = [queryOutcome EXCEPT ![FreeSlot] = "none"]
     /\ UNCHANGED <<chainVars, deleted, sendOk, now, sentKeys, subscribedUsers, userPushPrefs,
                    marketCapAlerts, mcVars, mcHist, scanCount, attempts>>

\* getLogs rejects: the outer catch ends the handler
GetLogsFail(h) ==
  /\ handlers[h].pc = "getLogs"
  /\ handlers' = [handlers EXCEPT ![h] = Idle]
  /\ queryOutcome' = [queryOutcome EXCEPT ![h] = "failed"]
  /\ UNCHANGED <<chainVars, deleted, sendOk, now, lastSignal, lastProcessed, sentKeys, subscribedUsers,
                 userPushPrefs, marketCapAlerts, mcVars, mcHist, firstSignal, scanCount,
                 attempts>>

\* getLogs resolves: the loop over logs starts
GetLogsOk(h) ==
  /\ handlers[h].pc = "getLogs"
  /\ queryOutcome' = [queryOutcome EXCEPT ![h] = "ok"]
  /\ scanCount' = [x \in Heights |->
                     IF handlers[h].from <= x /\ x <= handlers[h].to
                     THEN Bump(scanCount[x]) ELSE scanCount[x]]
  /\ ContinueLogs(h, LogsIn(chain, handlers[h].from, handlers[h].to))
  /\ UNCHANGED <<chainVars, deleted, sendOk, now, lastSignal, subscribedUsers, userPushPrefs,
                 marketCapAlerts, mcVars, mcHist, firstSignal, attempts>>

\* the six metadata calls have settled: the fan-out starts
EnrichSettle(h, raw) ==
  /\ handlers[h].pc = "enrich"
  /\ ContinueFanout(h, Enriched(raw), 1)
  /\ UNCHANGED <<chainVars, deleted, sendOk, now, lastSignal, subscribedUsers, marketCapAlerts, mcVars,
                 mcHist, firstSignal, queryOutcome, scanCount>>

\* an enrolment that does not wait for the outcome of the send
EnrollAnyway(m, prefs, t, u, ok) ==
  IF Truthy(getPrefs(prefs, u).mcUsdThreshold) THEN addToMarketCapAlerts(m, t, u) ELSE m

\* the token is enrolled after a delivered notification, if the threshold is set
EnrollAfterSend(m, prefs, t, u, ok) ==
  IF ok /\ Truthy(getPrefs(prefs, u).mcUsdThreshold)
  THEN addToMarketCapAlerts(m, t, u)
  ELSE m

\* sendMessage has settled (ok: resolved, ~ok: rejected and caught)
SendSettle(h, ok) ==
  /\ handlers[h].pc = "send"
  /\ sendOk' = ok
  /\ marketCapAlerts' = EnrollAfterSend(marketCapAlerts, userPushPrefs, handlers[h].cur.addr,
                                        subscribedUsers[handlers[h].ui], ok)
  /\ ContinueFanout(h, handlers[h].meta, handlers[h].ui + 1)
  /\ UNCHANGED <<chainVars, deleted, now, lastSignal, subscribedUsers, mcVars, mcHist, firstSignal,
                 queryOutcome, scanCount>>

(***************************************************************************)
(* MarketCapMonitor, checkMarketCapAlerts.                                 *)
(***************************************************************************)
MC_CHECK_INTERVAL == 300000

WOKB_ADDR == "0xe538"

\* String.prototype.toLowerCase on the addresses of the model
toLowerCase(a) ==
  CASE a = "0xE538" -> "0xe538"
    [] a = "0xAbCd" -> "0xabcd"
    [] OTHER -> a

\* a throttle that lets every call through
ThrottledNever(t, last) == FALSE

\* now - lastMcCheck < MC_CHECK_INTERVAL
Throttled(t, last) == t - last < MC_CHECK_INTERVAL

\* priceInWOKB as a fraction; null is [num |-> 0, den |-> 0]
NoPrice == [num |-> 0, den |-> 0]

\* a price that does not look for the reference asset
PriceAnySlot(p) ==
  IF p.reserve1 > 0 THEN [num |-> p.reserve0, den |-> p.reserve1] ELSE NoPrice

\* the ratio with the two reserves exchanged
PriceInverted(p) ==
  IF toLowerCase(p.token0) = toLowerCase(WOKB_ADDR)
  THEN IF p.reserve1 > 0 THEN [num |-> p.reserve1, den |-> p.reserve0] ELSE NoPrice
  ELSE IF toLowerCase(p.token1) = toLowerCase(WOKB_ADDR)
       THEN IF p.reserve0 > 0 THEN [num |-> p.reserve0, den |-> p.reserve1] ELSE NoPrice
       ELSE NoPrice

PriceInWOKB(p) ==
  IF toLowerCase(p.token0) = toLowerCase(WOKB_ADDR)
  THEN IF p.reserve1 > 0 THEN [num |-> p.reserve0, den |-> p.reserve1] ELSE NoPrice
  ELSE IF toLowerCase(p.token1) = toLowerCase(WOKB_ADDR)
       THEN IF p.reserve0 > 0 THEN [num |-> p.reserve1, den |-> p.reserve0] ELSE NoPrice
       ELSE NoPrice

\* !priceInWOKB: null and 0 are both falsy
NoUsablePrice(price) == price.num = 0

RECURSIVE DivPow10(_, _)
\* floor(n / 10^d)
DivPow10(n, d) == IF d = 0 \/ n = 0 THEN n ELSE DivPow10(n \div 10, d - 1)

\* The whole dollars of marketCapUSD = supplyFloat * priceInWOKB, with the
\* defaults of the two catches (0n and 18).  A threshold is a whole number
\* (Math.floor), so marketCapUSD >= threshold iff this value >= threshold.
MarketCapUSD(p, supplyOk, decimalsOk) ==
  LET supply == IF supplyOk THEN p.supply ELSE 0
      decimals == IF decimalsOk THEN p.decimals ELSE 18
      price == PriceInWOKB(p)
  IN DivPow10((supply * price.num) \div price.den, decimals)

\* a test that lets no alert through
ShouldAlertNever(threshold, cap) == FALSE

\* prefs.mcUsdThreshold && marketCapUSD >= prefs.mcUsdThreshold
ShouldAlert(threshold, cap) == Truthy(threshold) /\ cap >= threshold

NoAlert == [uid |-> 0, token |-> "", threshold |-> NULL, cap |-> 0]

\* caught: what the latest catch of the cycle has caught ("none", "price", "send")
IdleCycle == [pc |-> "idle", token |-> "", live |-> FALSE, tpos |-> 0, upos |-> 0,
              uid |-> 0, supplyOk |-> FALSE, decimalsOk |-> FALSE, cap |-> 0,
              caught |-> "none"]

\* the log of a cycle that has checked nothing yet
EmptyLog == [checked |-> {}, cap |-> [t \in Tokens |-> NULL],
             alerts |-> [p \in Tokens \X Users |-> 0]]

\* the log once the cycle stands at cyc: a cycle at "supply" has started to check a token
NoteChecked(log, cyc) ==
  IF cyc.pc = "supply" THEN [log EXCEPT !.checked = @ \cup {cyc.token}] ELSE log

\* the Map iterator yields its next entry, or the for loop and the call end
NextToken(cyc, m) ==
  IF cyc.tpos < Len(m)
  THEN [IdleCycle EXCEPT !.pc = "supply", !.token = m[cyc.tpos + 1].addr, !.live = TRUE,
                         !.tpos = cyc.tpos + 1, !.caught = cyc.caught]
  ELSE IdleCycle

\* alertData.users of the entry the cycle holds: empty once the entry was deleted
CycleUsers(cyc, m) == IF cyc.live THEN m[cyc.tpos].users ELSE <<>>

\* the first user after position upos who is to be alerted, 0 if none
NextAlertee(cyc, m, prefs) ==
  LET users == CycleUsers(cyc, m)
      due == {j \in (cyc.upos + 1)..Len(users) :
                ShouldAlert(getPrefs(prefs, users[j]).mcUsdThreshold, cyc.cap)}
  IN IF due = {} THEN 0 ELSE CHOOSE j \in due : \A k \in due : j <= k

\* the loop over alertData.users up to the next await (of token.symbol()),
\* or on to the next token
UserLoop(cyc, m, prefs) ==
  LET j == NextAlertee(cyc, m, prefs) IN
  IF j = 0 THEN NextToken(cyc, m)
  ELSE [cyc EXCEPT !.pc = "symbol", !.uid = CycleUsers(cyc, m)[j], !.upos = j]

\* the users getPrefs is called for by UserLoop
UserLoopSeen(cyc, m, prefs) ==
  LET j == NextAlertee(cyc, m, prefs)
      users == CycleUsers(cyc, m)
  IN {users[k] : k \in (cyc.upos + 1)..(IF j = 0 THEN Len(users) ELSE j)}

FreeCycle == IF \E c \in Cycles : cycles[c].pc = "idle"
             THEN CHOOSE c \in Cycles : cycles[c].pc = "idle" /\
                         \A d \in Cycles : cycles[d].pc = "idle" => c <= d
             ELSE 0

\* a call of checkMarketCapAlerts, up to its first await or its return
checkMarketCapAlerts ==
  /\ invocation' = [at |-> now, real |-> ~Throttled(now, lastMcCheck)]
  /\ IF Throttled(now, lastMcCheck)
     THEN UNCHANGED <<lastMcCheck, cycles, checkTimes, cycleLog>>
     ELSE /\ FreeCycle # 0
          /\ lastMcCheck' = now
          /\ checkTimes' = Append(checkTimes, now)
          /\ cycles' = [cycles EXCEPT ![FreeCycle] = NextToken(IdleCycle, marketCapAlerts)]
          /\ cycleLog' = [cycleLog EXCEPT ![FreeCycle] =
                            NoteChecked(EmptyLog, NextToken(IdleCycle, marketCapAlerts))]
  /\ UNCHANGED <<chainVars, deleted, now, blockVars, blockHist, subscribedUsers, userPushPrefs,
                 marketCapAlerts, alertInFlight>>

\* totalSupply and decimals have settled, each with its catch
SupplySettle(c, supplyOk, decimalsOk) ==
  /\ cycles[c].pc = "supply"
  /\ cycles' = [cycles EXCEPT ![c] = [@ EXCEPT !.pc = "reserves", !.supplyOk = supplyOk,
                                                !.decimalsOk = decimalsOk]]
  /\ UNCHANGED <<chainVars, deleted, now, blockVars, blockHist, subscribedUsers, userPushPrefs,
                 marketCapAlerts, lastMcCheck, mcHist>>

\* a catch that ends the whole cycle
SkipRest(cyc, m) == IdleCycle

\* the catch of the price block: console.log and `continue` with the next token
SkipToken(cyc, m) == NextToken([cyc EXCEPT !.caught = "price"], m)

\* getReserves, token0 or token1 rejects
PoolReadFail(c) ==
  /\ cycles[c].pc \in {"reserves", "token0", "token1"}
  /\ cycles' = [cycles EXCEPT ![c] = SkipToken(@, marketCapAlerts)]
  /\ cycleLog' = [cycleLog EXCEPT ![c] = NoteChecked(@, cycles'[c])]
  /\ UNCHANGED <<chainVars, deleted, now, blockVars, blockHist, subscribedUsers, userPushPrefs,
                 marketCapAlerts, lastMcCheck, invocation, checkTimes, alertInFlight>>

\* getReserves resolves
ReservesSettle(c) ==
  /\ cycles[c].pc = "reserves"
  /\ cycles' = [cycles EXCEPT ![c].pc = "token0"]
  /\ UNCHANGED <<chainVars, deleted, now, blockVars, blockHist, subscribedUsers, userPushPrefs,
                 marketCapAlerts, lastMcCheck, mcHist>>

\* token0 resolves
Token0Settle(c) ==
  /\ cycles[c].pc = "token0"
  /\ cycles' = [cycles EXCEPT ![c].pc = "token1"]
  /\ UNCHANGED <<chainVars, deleted, now, blockVars, blockHist, subscribedUsers, userPushPrefs,
                 marketCapAlerts, lastMcCheck, mcHist>>

\* token1 resolves: the price, the market cap, and the loop over the users
Token1Settle(c) ==
  LET p == pool[cycles[c].token]
      cyc == [cycles[c] EXCEPT
                !.cap = MarketCapUSD(p, cycles[c].supplyOk, cycles[c].decimalsOk)]
  IN /\ cycles[c].pc = "token1"
     /\ IF NoUsablePrice(PriceInWOKB(p))
        THEN /\ cycles' = [cycles EXCEPT ![c] = NextToken(@, marketCapAlerts)]
             /\ cycleLog' = [cycleLog EXCEPT ![c] = NoteChecked(@, cycles'[c])]
             /\ UNCHANGED userPushPrefs
        ELSE /\ cycles' = [cycles EXCEPT ![c] = UserLoop(cyc, marketCapAlerts, userPushPrefs)]
             /\ cycleLog' = [cycleLog EXCEPT ![c] =
                               NoteChecked([@ EXCEPT !.cap[cyc.token] = cyc.cap], cycles'[c])]
             /\ userPushPrefs' = WithPrefs(userPushPrefs,
                                           UserLoopSeen(cyc, marketCapAlerts, userPushPrefs))
     /\ UNCHANGED <<chainVars, deleted, now, blockVars, blockHist, subscribedUsers, marketCapAlerts,
                    lastMcCheck, invocation, checkTimes, alertInFlight>>

\* the threshold the alert text shows: prefs.mcUsdThreshold when the text is built
ShownThreshold(prefs, u) == getPrefs(prefs, u).mcUsdThreshold

\* token.symbol() has settled: the text is built and sendMessage is called
SymbolSettle(c) ==
  /\ cycles[c].pc = "symbol"
  /\ cycles' = [cycles EXCEPT ![c].pc = "send"]
  /\ alertInFlight' = [alertInFlight EXCEPT ![c] =
                          [uid |-> cycles[c].uid, token |-> cycles[c].token,
                           threshold |-> ShownThreshold(userPushPrefs, cycles[c].uid),
                           cap |-> cycles[c].cap]]
  /\ cycleLog' = [cycleLog EXCEPT ![c].alerts[<<cycles[c].token, cycles[c].uid>>] = Bump(@)]
  /\ UNCHANGED <<chainVars, deleted, now, blockVars, blockHist, subscribedUsers, userPushPrefs,
                 marketCapAlerts, lastMcCheck, invocation, checkTimes>>

\* the cycle after sendMessage has settled: a rejection is caught by the
\* catch of the user loop, which logs it
AfterSend(cyc, ok) == IF ok THEN cyc ELSE [cyc EXCEPT !.caught = "send"]

\* sendMessage of the alert has settled (ok: resolved, ~ok: rejected): the next user
AlertSettle(c, ok) ==
  /\ cycles[c].pc = "send"
  /\ cycles' = [cycles EXCEPT ![c] = UserLoop(AfterSend(@, ok), marketCapAlerts, userPushPrefs)]
  /\ cycleLog' = [cycleLog EXCEPT ![c] = NoteChecked(@, cycles'[c])]
  /\ userPushPrefs' = WithPrefs(userPushPrefs,
                                UserLoopSeen(cycles[c], marketCapAlerts, userPushPrefs))
  /\ alertInFlight' = [alertInFlight EXCEPT ![c] = NoAlert]
  /\ UNCHANGED <<chainVars, deleted, now, blockVars, blockHist, subscribedUsers, marketCapAlerts,
                 lastMcCheck, invocation, checkTimes>>

\* time passes
Tick ==
  /\ now < StartTime + MaxTicks * TickMs
  /\ now' = now + TickMs
  /\ UNCHANGED <<chainVars, deleted, blockVars, blockHist, subscribedUsers, userPushPrefs,
                 marketCapAlerts, mcVars, mcHist>>

(***************************************************************************)
(* The chat handlers.  Each changes the registries before its first await, *)
(* so each is one step.  A Map or Set iterator of a suspended market-cap   *)
(* cycle stays valid when entries are deleted: it skips what is gone and   *)
(* still reaches what is appended.  The registries are kept as sequences,  *)
(* so a deletion shifts the positions the cycles hold.                     *)
(***************************************************************************)
\* the cycle's iterators after removeFromMarketCapAlerts(t, u) on m
AfterRemove(cyc, m, t, u) ==
  IF cyc.pc = "idle" \/ ~HasEntry(m, t) \/ ~SetHas(UsersOf(m, t), u) THEN cyc
  ELSE LET i == EntryIndex(m, t)
           q == IndexOf(m[i].users, u)
       IN IF Len(m[i].users) = 1
          THEN IF i > cyc.tpos THEN cyc
               ELSE IF i = cyc.tpos /\ cyc.live
                    THEN [cyc EXCEPT !.tpos = @ - 1, !.live = FALSE, !.upos = 0]
                    ELSE [cyc EXCEPT !.tpos = @ - 1]
          ELSE IF cyc.live /\ i = cyc.tpos /\ q <= cyc.upos
               THEN [cyc EXCEPT !.upos = @ - 1]
               ELSE cyc

RECURSIVE ClearSkipping(_, _, _)
\* a loop that loses its place when it deletes an entry: the entry after a
\* deleted one is not visited
ClearSkipping(st, addrs, u) ==
  IF addrs = <<>> THEN st
  ELSE LET t == Head(addrs)
           m1 == removeFromMarketCapAlerts(st.m, t, u)
           gone == HasEntry(st.m, t) /\ ~HasEntry(m1, t)
           rest == IF gone /\ Len(addrs) > 1 THEN Tail(Tail(addrs)) ELSE Tail(addrs)
       IN ClearSkipping([m |-> m1, cycles |-> st.cycles], rest, u)

RECURSIVE ClearAll(_, _, _)
\* callback 'clear_all_alerts': the loop over the entries of the Map, for the
\* tokens `addrs` still to visit; st is [m, cycles]
ClearAll(st, addrs, u) ==
  IF addrs = <<>> THEN st
  ELSE LET t == Head(addrs)
           m1 == removeFromMarketCapAlerts(st.m, t, u)
           c1 == [c \in Cycles |-> AfterRemove(st.cycles[c], st.m, t, u)]
       IN ClearAll([m |-> m1, cycles |-> c1], Tail(addrs), u)

\* a loop that stops after the first entry of the Map
EnrollFirstOnly(m, addrs, u) ==
  IF addrs = <<>> THEN m ELSE addToMarketCapAlerts(m, Head(addrs), u)

\* the registry after the loop of bot.on('message'): addToMarketCapAlerts for
\* every entry of the Map the user is not in
RECURSIVE EnrollAll(_, _, _)
EnrollAll(m, addrs, u) ==
  IF addrs = <<>> THEN m
  ELSE EnrollAll(IF SetHas(UsersOf(m, Head(addrs)), u) THEN m
                 ELSE addToMarketCapAlerts(m, Head(addrs), u),
                 Tail(addrs), u)

AddrsOf(m) == [i \in 1..Len(m) |-> m[i].addr]

\* bot.start: subscribedUsers.add, then showMenu calls getPrefs
Start(u) ==
  /\ subscribedUsers' = SetAdd(subscribedUsers, u)
  /\ userPushPrefs' = WithPrefs(userPushPrefs, {u})
  /\ UNCHANGED <<chainVars, deleted, now, blockVars, blockHist, marketCapAlerts, mcVars, mcHist>>

\* setLang(id, lang)
setLang(prefs, id, lang) ==
  [WithPrefs(prefs, {id}) EXCEPT ![id].lang = IF lang = "zh" THEN "zh" ELSE "en"]

\* command /lang <arg>, callbacks 'lang_en' and 'lang_zh'
SetLang(u, arg) ==
  /\ userPushPrefs' = setLang(userPushPrefs, u, arg)
  /\ UNCHANGED <<chainVars, deleted, now, blockVars, blockHist, subscribedUsers, marketCapAlerts,
                 mcVars, mcHist>>

\* callback 'pf_media'
ToggleMedia(u) ==
  /\ userPushPrefs' = [WithPrefs(userPushPrefs, {u}) EXCEPT ![u].requireMediaLink = ~@]
  /\ UNCHANGED <<chainVars, deleted, now, blockVars, blockHist, subscribedUsers, marketCapAlerts,
                 mcVars, mcHist>>

\* callback 'pf_mc_clear'
ClearThreshold(u) ==
  /\ userPushPrefs' = [WithPrefs(userPushPrefs, {u}) EXCEPT ![u].mcUsdThreshold = NULL]
  /\ UNCHANGED <<chainVars, deleted, now, blockVars, blockHist, subscribedUsers, marketCapAlerts,
                 mcVars, mcHist>>

\* A reply's text as Number() reads it: finite or not (NaN, Infinity), and
\* twice its value, so that halves can be written.
Accepted(reply) == reply.finite /\ reply.twice > 0

\* Math.floor(n) of an accepted reply
Floor(reply) == reply.twice \div 2

\* bot.on('message') for a message that is a reply
ReplyMessage(u, reply) ==
  /\ IF Accepted(reply)
     THEN /\ userPushPrefs' = [WithPrefs(userPushPrefs, {u}) EXCEPT
                                 ![u].mcUsdThreshold = Floor(reply)]
          /\ marketCapAlerts' = EnrollAll(marketCapAlerts, AddrsOf(marketCapAlerts), u)
     ELSE /\ userPushPrefs' = WithPrefs(userPushPrefs, {u})
          /\ UNCHANGED marketCapAlerts
  /\ UNCHANGED <<chainVars, deleted, now, blockVars, blockHist, subscribedUsers, mcVars, mcHist>>

\* the tokens that have an entry in m and none in m1
Dropped(m, m1) == {t \in Tokens : HasEntry(m, t) /\ ~HasEntry(m1, t)}

\* callback 'remove_alert_<addr>'
RemoveAlert(u, t) ==
  /\ marketCapAlerts' = removeFromMarketCapAlerts(marketCapAlerts, t, u)
  /\ cycles' = [c \in Cycles |-> AfterRemove(cycles[c], marketCapAlerts, t, u)]
  /\ deleted' = deleted \cup Dropped(marketCapAlerts, removeFromMarketCapAlerts(marketCapAlerts, t, u))
  /\ userPushPrefs' = WithPrefs(userPushPrefs, {u})
  /\ UNCHANGED <<chainVars, now, blockVars, blockHist, subscribedUsers, lastMcCheck, mcHist>>

\* callback 'clear_all_alerts'
ClearAllAlerts(u) ==
  LET st == ClearAll([m |-> marketCapAlerts, cycles |-> cycles], AddrsOf(marketCapAlerts), u)
  IN /\ marketCapAlerts' = st.m
     /\ cycles' = st.cycles
     /\ deleted' = deleted \cup Dropped(marketCapAlerts, st.m)
     /\ userPushPrefs' = WithPrefs(userPushPrefs, {u})
     /\ UNCHANGED <<chainVars, now, blockVars, blockHist, subscribedUsers, lastMcCheck,
                    mcHist>>

(***************************************************************************)
(* The environment's choices.                                              *)
(***************************************************************************)
RawMetas ==
  {[symbol |-> "", decimals |-> "", web |-> "", tg |-> "", tw |-> "", desc |-> ""],
   [symbol |-> "SYM", decimals |-> "18", web |-> "", tg |-> "t.me/x", tw |-> " ",
    desc |-> "text"]}

Replies ==
  {[finite |-> FALSE, twice |-> 0], [finite |-> TRUE, twice |-> -2],
   [finite |-> TRUE, twice |-> 1], [finite |-> TRUE, twice |-> 30000],
   [finite |-> TRUE, twice |-> 40002]}

PoolRef0 == [supply |-> 10000, decimals |-> 0, reserve0 |-> 1000, reserve1 |-> 500,
             token0 |-> "0xE538", token1 |-> "0xAbCd"]
PoolRef1 == [supply |-> 10000, decimals |-> 0, reserve0 |-> 500, reserve1 |-> 1000,
             token0 |-> "0xAbCd", token1 |-> "0xe538"]
PoolNoRef == [supply |-> 10000, decimals |-> 0, reserve0 |-> 1000, reserve1 |-> 500,
              token0 |-> "0xAbCd", token1 |-> "0xAbCd"]
PoolEmpty == [supply |-> 10000, decimals |-> 0, reserve0 |-> 1000, reserve1 |-> 0,
              token0 |-> "0xE538", token1 |-> "0xAbCd"]
PoolDrained == [supply |-> 10000, decimals |-> 0, reserve0 |-> 0, reserve1 |-> 500,
                token0 |-> "0xE538", token1 |-> "0xAbCd"]

(***************************************************************************)
(* The state after the module is loaded.                                   *)
(***************************************************************************)
\* the registries as the module creates them
EmptyRegistries ==
  /\ subscribedUsers = <<>>
  /\ userPushPrefs = <<>>
  /\ marketCapAlerts = <<>>

\* everything else the module creates, and the histories
Loaded ==
  /\ now = StartTime
  /\ lastSignal = 0
  /\ lastProcessed = 0
  /\ sentKeys = {}
  /\ lastMcCheck = 0
  /\ handlers = [h \in Slots |-> Idle]
  /\ cycles = [c \in Cycles |-> IdleCycle]
  /\ firstSignal = 0
  /\ queryOutcome = [h \in Slots |-> "none"]
  /\ scanCount = [x \in Heights |-> 0]
  /\ attempts = [p \in Keys \X Users |-> 0]
  /\ invocation = [at |-> 0, real |-> FALSE]
  /\ deleted = {}
  /\ cycleLog = [c \in Cycles |-> EmptyLog]
  /\ sendOk = FALSE
  /\ checkTimes = <<>>
  /\ alertInFlight = [c \in Cycles |-> NoAlert]

Init ==
  /\ chain \in [Heights -> LogLists]
  /\ pool \in [Tokens -> {PoolRef0, PoolRef1, PoolNoRef, PoolEmpty}]
  /\ EmptyRegistries
  /\ Loaded

BlockNext ==
  \/ \E bn \in Heights : BlockSignal(bn)
  \/ \E h \in Slots : GetLogsFail(h)
  \/ \E h \in Slots : GetLogsOk(h)
  \/ \E h \in Slots, raw \in RawMetas : EnrichSettle(h, raw)
  \/ \E h \in Slots, ok \in BOOLEAN : SendSettle(h, ok)

CycleNext ==
  \/ checkMarketCapAlerts
  \/ \E c \in Cycles, supplyOk \in BOOLEAN, decimalsOk \in BOOLEAN :
       SupplySettle(c, supplyOk, decimalsOk)
  \/ \E c \in Cycles : PoolReadFail(c)
  \/ \E c \in Cycles : ReservesSettle(c)
  \/ \E c \in Cycles : Token0Settle(c)
  \/ \E c \in Cycles : Token1Settle(c)
  \/ \E c \in Cycles : SymbolSettle(c)
  \/ \E c \in Cycles, ok \in BOOLEAN : AlertSettle(c, ok)
  \/ Tick

ChatNext ==
  \/ \E u \in Users : Start(u)
  \/ \E u \in Users, arg \in {"en", "zh", ""} : SetLang(u, arg)
  \/ \E u \in Users : ToggleMedia(u)
  \/ \E u \in Users : ClearThreshold(u)
  \/ \E u \in Users, reply \in Replies : ReplyMessage(u, reply)
  \/ \E u \in Users, t \in Tokens : RemoveAlert(u, t)
  \/ \E u \in Users : ClearAllAlerts(u)

Next == BlockNext \/ CycleNext \/ ChatNext

Spec == Init /\ [][Next]_vars

(***************************************************************************)
(* The cursor and the dedup set: the block handlers of overlapping 'block' *)
(* events, with subscribers joining.                                       *)
(***************************************************************************)
CursorNext ==
  \/ \E bn \in Heights : BlockSignal(bn)
  \/ \E h \in Slots : GetLogsFail(h)
  \/ \E h \in Slots : GetLogsOk(h)
  \/ \E h \in Slots, raw \in RawMetas : EnrichSettle(h, raw)
  \/ \E h \in Slots, ok \in BOOLEAN : SendSettle(h, ok)
  \/ \E u \in Users : Start(u)

CursorInit ==
  /\ chain \in [Heights -> LogLists]
  /\ pool = [t \in Tokens |-> PoolRef0]
  /\ EmptyRegistries
  /\ Loaded

SpecCursor == CursorInit /\ [][CursorNext]_vars

(***************************************************************************)
(* The claims about the cursor and the dedup set.                          *)
(***************************************************************************)
InFanout(h) == handlers[h].pc \in {"enrich", "send"}

Ended(h) == handlers[h].pc # "idle" /\ handlers'[h].pc = "idle"

\* the key is in a well-formed log of height x
KeyAt(key, x) == \E i \in 1..Len(chain[x]) : chain[x][i].ok /\ KeyOf(chain[x][i]) = key

\* C1: for every dedup key and every subscriber, the block handlers call
\* sendMessage for that key and subscriber at most once, whatever ranges the
\* log queries covered and however the handlers overlapped.
C1_AtMostOneAttempt == \A p \in Keys \X Users : attempts[p] <= 1

\* a key that two successful queries returned was sent to a subscriber, once
C1_Witness ==
  \E key \in Keys, u \in Users, x \in Heights :
    /\ KeyAt(key, x)
    /\ scanCount[x] >= 2
    /\ attempts[<<key, u>>] = 1
    /\ \A h \in Slots : handlers[h].pc = "idle"

\* C2: no step lowers the cursor lastProcessed.
C2_CursorNeverDecreases == [][lastProcessed' >= lastProcessed]_vars

\* C3: every height from the first signal's height up to the cursor was in
\* the range of a successful log query.
C3_NoHeightSkipped ==
  firstSignal # 0 =>
    \A x \in Heights : (firstSignal <= x /\ x <= lastProcessed) => scanCount[x] >= 1

\* C4: after the first signal's initialisation the cursor is written only by
\* a handler whose log query succeeded, which sets it to its signal's height
\* when it ends; a handler whose query failed leaves the cursor as it was.
C4_CursorFollowsQuery ==
  [][/\ (firstSignal # 0 /\ lastProcessed' # lastProcessed) =>
          \E h \in Slots : /\ Ended(h)
                           /\ queryOutcome'[h] = "ok"
                           /\ lastProcessed' = handlers[h].to
     /\ \A h \in Slots :
          /\ (Ended(h) /\ queryOutcome'[h] = "ok") => lastProcessed' = handlers[h].to
          /\ (Ended(h) /\ queryOutcome'[h] = "failed") => lastProcessed' = lastProcessed
    ]_vars

\* C5: no height is in the range of more than one successful log query.
C5_NoRescan == \A x \in Heights : scanCount[x] <= 1

\* C6: while a handler enriches or fans out an event, the event's key is in
\* sentKeys, and no other handler is enriching or fanning out the same key
\* (the test and the insertion are one step).
C6_KeyRecordedFirst ==
  \A h \in Slots :
    InFanout(h) =>
      /\ KeyOf(handlers[h].cur) \in sentKeys
      /\ \A g \in Slots \ {h} :
           InFanout(g) => KeyOf(handlers[g].cur) # KeyOf(handlers[h].cur)

\* two handlers are in flight at once, each on an event of its own
C6_Witness ==
  \E h \in Slots, g \in Slots :
    /\ h # g
    /\ handlers[h].pc = "enrich"
    /\ handlers[g].pc = "send"
    /\ {KeyOf(handlers[h].cur), KeyOf(handlers[g].cur)} \subseteq sentKeys

\* C7: the first signal, of height H, sets the cursor to H - 1; no later
\* signal initialises the cursor again; no log query starts below H.
C7_InitialisedOnce ==
  /\ [](\A h \in Slots : handlers[h].pc # "idle" => handlers[h].from >= firstSignal)
  /\ [][/\ (firstSignal = 0 /\ firstSignal' # 0) => lastProcessed' = firstSignal' - 1
        /\ (/\ firstSignal # 0
            /\ \/ lastSignal' # lastSignal
               \/ \E h \in Slots : handlers[h].pc = "idle" /\ handlers'[h].pc = "getLogs")
           => lastProcessed' = lastProcessed
       ]_vars

(***************************************************************************)
(* The market-cap cycle on a registry that the block handler and the chat  *)
(* handlers have filled: every user has started the bot and set a          *)
(* threshold, and was sent the notifications of both tokens; the last user *)
(* alone still watches the second token.                                   *)
(***************************************************************************)
AllUsers == [i \in 1..MaxUsers |-> i]

McInit ==
  /\ chain = [x \in Heights |-> <<>>]
  /\ pool \in [Tokens -> {PoolRef0, PoolRef1, PoolNoRef, PoolEmpty, PoolDrained}]
  /\ Loaded
  /\ subscribedUsers = AllUsers
  /\ userPushPrefs \in [Users -> {[DefaultPrefs EXCEPT !.mcUsdThreshold = 15000],
                                   [DefaultPrefs EXCEPT !.mcUsdThreshold = 20001]}]
  /\ marketCapAlerts = <<[addr |-> "A", users |-> AllUsers],
                          [addr |-> "B", users |-> <<MaxUsers>>]>>

McNext ==
  \/ checkMarketCapAlerts
  \/ \E c \in Cycles, supplyOk \in BOOLEAN, decimalsOk \in BOOLEAN :
       SupplySettle(c, supplyOk, decimalsOk)
  \/ \E c \in Cycles : PoolReadFail(c)
  \/ \E c \in Cycles : ReservesSettle(c)
  \/ \E c \in Cycles : Token0Settle(c)
  \/ \E c \in Cycles : Token1Settle(c)
  \/ \E c \in Cycles : SymbolSettle(c)
  \/ \E c \in Cycles, ok \in BOOLEAN : AlertSettle(c, ok)
  \/ Tick

SpecMc == McInit /\ [][McNext]_vars

\* the market-cap cycle while the users change their thresholds and alerts
ThresholdInit ==
  /\ chain = [x \in Heights |-> <<>>]
  /\ pool = [t \in Tokens |-> IF t = "A" THEN PoolRef0 ELSE PoolRef1]
  /\ Loaded
  /\ subscribedUsers = AllUsers
  /\ userPushPrefs = [u \in Users |-> [DefaultPrefs EXCEPT !.mcUsdThreshold = 15000]]
  /\ marketCapAlerts = <<[addr |-> "A", users |-> AllUsers],
                         [addr |-> "B", users |-> <<MaxUsers>>]>>

\* the replies of SpecThreshold: a text that is rejected and a threshold above the cap
ThresholdReplies == {reply \in Replies : reply.twice \in {0, 40002}}

ThresholdNext ==
  \/ checkMarketCapAlerts
  \/ \E c \in Cycles, supplyOk \in BOOLEAN, decimalsOk \in BOOLEAN :
       SupplySettle(c, supplyOk, decimalsOk)
  \/ \E c \in Cycles : PoolReadFail(c)
  \/ \E c \in Cycles : ReservesSettle(c)
  \/ \E c \in Cycles : Token0Settle(c)
  \/ \E c \in Cycles : Token1Settle(c)
  \/ \E c \in Cycles : SymbolSettle(c)
  \/ \E c \in Cycles, ok \in BOOLEAN : AlertSettle(c, ok)
  \/ \E u \in Users : ClearThreshold(u)
  \/ \E u \in Users, reply \in ThresholdReplies : ReplyMessage(u, reply)
  \/ \E u \in Users, t \in Tokens : RemoveAlert(u, t)
  \/ \E u \in Users : ClearAllAlerts(u)

SpecThreshold == ThresholdInit /\ [][ThresholdNext]_vars

(***************************************************************************)
(* The alert registry under the block handler's enrolments and the chat    *)
(* handlers' removals, while a market-cap cycle iterates over it.          *)
(***************************************************************************)
AlertReplies == {reply \in Replies : reply.twice \in {0, 30000}}

AlertsInit ==
  /\ chain = [bn \in Heights |-> IF bn = 2 THEN <<LogA1, LogBad, LogB1>> ELSE <<>>]
  /\ pool = [t \in Tokens |-> IF t = "A" THEN PoolRef0 ELSE PoolRef1]
  /\ Loaded
  /\ subscribedUsers = AllUsers
  /\ userPushPrefs = [u \in Users |-> [DefaultPrefs EXCEPT !.mcUsdThreshold = 15000]]
  /\ marketCapAlerts = <<>>

AlertsNext ==
  \/ \E bn \in Heights : BlockSignal(bn)
  \/ \E h \in Slots : GetLogsFail(h)
  \/ \E h \in Slots : GetLogsOk(h)
  \/ \E h \in Slots, raw \in RawMetas : EnrichSettle(h, raw)
  \/ \E h \in Slots, ok \in BOOLEAN : SendSettle(h, ok)
  \/ \E u \in Users : ClearThreshold(u)
  \/ \E u \in Users, reply \in AlertReplies : ReplyMessage(u, reply)
  \/ \E u \in Users, t \in Tokens : RemoveAlert(u, t)
  \/ \E u \in Users : ClearAllAlerts(u)

SpecAlerts == AlertsInit /\ [][AlertsNext]_vars

(***************************************************************************)
(* The claims about the registries and the market-cap monitor.             *)
(***************************************************************************)
\* C8: in every state between two handler steps, marketCapAlerts holds one
\* entry at most per token, and it holds an entry for a token exactly when
\* that token's subscriber set is not empty.
C8_EntryIffSubscribers ==
  /\ \A i, j \in 1..Len(marketCapAlerts) :
       marketCapAlerts[i].addr = marketCapAlerts[j].addr => i = j
  /\ \A i \in 1..Len(marketCapAlerts) : Len(marketCapAlerts[i].users) > 0
  /\ \A t \in Tokens : HasEntry(marketCapAlerts, t) <=> UsersOf(marketCapAlerts, t) # <<>>

\* a block handler is suspended in the send of a token whose entry was created
\* and then deleted again when its last subscriber left
C8_Witness ==
  \E h \in Slots :
    /\ handlers[h].pc = "send"
    /\ handlers[h].cur.addr \in deleted
    /\ ~HasEntry(marketCapAlerts, handlers[h].cur.addr)
    /\ marketCapAlerts # <<>>

\* C9: an alert handed to sendMessage goes to a user whose threshold is set
\* at that moment and is not above the market cap the cycle computed; the
\* text never carries an unset threshold.
C9_AlertRespectsThreshold ==
  \A c \in Cycles :
    alertInFlight[c] # NoAlert =>
      ShouldAlert(alertInFlight[c].threshold, alertInFlight[c].cap)

LastCheck == IF checkTimes = <<>> THEN 0 ELSE checkTimes[Len(checkTimes)]

\* C10: two calls that pass the throttle are at least MC_CHECK_INTERVAL
\* apart and lastMcCheck is the time of the latest of them; a call made
\* sooner after the latest real check starts no cycle, sends no alert and
\* leaves lastMcCheck as it was; a cycle starts only at a real check.
C10_Throttle ==
  /\ [](/\ \A i \in 1..Len(checkTimes), j \in 1..Len(checkTimes) :
             i < j => checkTimes[j] - checkTimes[i] >= MC_CHECK_INTERVAL
        /\ lastMcCheck = LastCheck)
  /\ [][/\ (invocation' # invocation /\ checkTimes # <<>>
                                     /\ now - LastCheck < MC_CHECK_INTERVAL)
             => UNCHANGED <<lastMcCheck, cycles, checkTimes, alertInFlight, userPushPrefs>>
        /\ (\E c \in Cycles : cycles[c].pc = "idle" /\ cycles'[c].pc # "idle")
             => checkTimes' = Append(checkTimes, now)
       ]_vars

\* a call was throttled while the cycle of the only real check was still in flight
C10_Witness ==
  /\ Len(checkTimes) = 1
  /\ ~invocation.real
  /\ invocation.at - lastMcCheck < MC_CHECK_INTERVAL
  /\ invocation.at > lastMcCheck
  /\ \E c \in Cycles : cycles[c].pc = "send"

(***************************************************************************)
(* The fan-out of the block handler for subscribers with and without the   *)
(* media-link filter and a threshold, over the outcomes of the six         *)
(* metadata calls.                                                         *)
(***************************************************************************)
FanoutMetas ==
  RawMetas \cup
  {[symbol |-> "SYM", decimals |-> "18", web |-> "site", tg |-> "t.me/x", tw |-> "x.com/y",
    desc |-> "text"],
   [symbol |-> "", decimals |-> "18", web |-> "site", tg |-> "t.me/x", tw |-> "x.com/y",
    desc |-> "text"],
   [symbol |-> "", decimals |-> "", web |-> "site", tg |-> "", tw |-> "", desc |-> ""],
   [symbol |-> "SYM", decimals |-> "", web |-> " ", tg |-> "", tw |-> "", desc |-> "text"]}

FanoutInit ==
  /\ chain = [bn \in Heights |-> IF bn = 2 THEN <<LogA1, LogBad, LogB1>> ELSE <<>>]
  /\ pool = [t \in Tokens |-> PoolRef0]
  /\ Loaded
  /\ subscribedUsers = AllUsers
  /\ userPushPrefs \in [Users -> {[DefaultPrefs EXCEPT !.requireMediaLink = media,
                                                        !.mcUsdThreshold = threshold] :
                                     media \in BOOLEAN, threshold \in {NULL, 15000}}]
  /\ marketCapAlerts = <<>>

FanoutNext ==
  \/ \E bn \in Heights : BlockSignal(bn)
  \/ \E h \in Slots : GetLogsFail(h)
  \/ \E h \in Slots : GetLogsOk(h)
  \/ \E h \in Slots, raw \in FanoutMetas : EnrichSettle(h, raw)
  \/ \E h \in Slots, ok \in BOOLEAN : SendSettle(h, ok)

SpecFanout == FanoutInit /\ [][FanoutNext]_vars

\* the same fan-out while subscribers clear their thresholds
EnrolNext ==
  \/ \E bn \in Heights : BlockSignal(bn)
  \/ \E h \in Slots : GetLogsFail(h)
  \/ \E h \in Slots : GetLogsOk(h)
  \/ \E h \in Slots, raw \in RawMetas : EnrichSettle(h, raw)
  \/ \E h \in Slots, ok \in BOOLEAN : SendSettle(h, ok)
  \/ \E u \in Users : ClearThreshold(u)

SpecEnrol == FanoutInit /\ [][EnrolNext]_vars

(***************************************************************************)
(* Outbound calls that never respond.  getLogs, the metadata calls, the    *)
(* pool reads and sendMessage are awaited as they are: the code sets no    *)
(* timeout and races no call against a timer, so a call whose response     *)
(* never comes leaves its handler at the await for good ("hung").          *)
(***************************************************************************)
\* the call a block handler awaits never responds
CallHangs(h) ==
  /\ handlers[h].pc \in {"getLogs", "enrich", "send"}
  /\ handlers' = [handlers EXCEPT ![h].pc = "hung"]
  /\ UNCHANGED <<chainVars, deleted, now, lastSignal, lastProcessed, sentKeys, subscribedUsers,
                 userPushPrefs, marketCapAlerts, mcVars, mcHist, blockHist>>

\* the call a market-cap cycle awaits never responds
CycleCallHangs(c) ==
  /\ cycles[c].pc \in {"supply", "reserves", "token0", "token1", "symbol", "send"}
  /\ cycles' = [cycles EXCEPT ![c].pc = "hung"]
  /\ UNCHANGED <<chainVars, deleted, now, blockVars, blockHist, subscribedUsers, userPushPrefs,
                 marketCapAlerts, lastMcCheck, mcHist>>

\* the continuation of block handler h after the call it awaits has settled
HandlerStep(h) ==
  \/ GetLogsFail(h)
  \/ GetLogsOk(h)
  \/ \E raw \in RawMetas : EnrichSettle(h, raw)
  \/ \E ok \in BOOLEAN : SendSettle(h, ok)

\* the continuation of cycle c after the call it awaits has settled
CycleStep(c) ==
  \/ \E supplyOk \in BOOLEAN, decimalsOk \in BOOLEAN : SupplySettle(c, supplyOk, decimalsOk)
  \/ PoolReadFail(c)
  \/ ReservesSettle(c)
  \/ Token0Settle(c)
  \/ Token1Settle(c)
  \/ SymbolSettle(c)
  \/ \E ok \in BOOLEAN : AlertSettle(c, ok)

HangInit ==
  /\ chain = [bn \in Heights |-> IF bn = 2 THEN <<LogA1>> ELSE <<>>]
  /\ pool = [t \in Tokens |-> IF t = "A" THEN PoolRef0 ELSE PoolRef1]
  /\ Loaded
  /\ subscribedUsers = AllUsers
  /\ userPushPrefs = [u \in Users |-> [DefaultPrefs EXCEPT !.mcUsdThreshold = 15000]]
  /\ marketCapAlerts = <<[addr |-> "A", users |-> AllUsers]>>

HangNext ==
  \/ \E bn \in Heights : BlockSignal(bn)
  \/ \E h \in Slots : HandlerStep(h)
  \/ \E h \in Slots : CallHangs(h)
  \/ checkMarketCapAlerts
  \/ \E c \in Cycles : CycleStep(c)
  \/ \E c \in Cycles : CycleCallHangs(c)

\* a call that does not hang settles, and the continuation of its handler
\* runs: the event loop runs every continuation that is ready
SpecHang ==
  /\ HangInit
  /\ [][HangNext]_vars
  /\ \A h \in Slots : WF_vars(HandlerStep(h))
  /\ \A c \in Cycles : WF_vars(CycleStep(c))

(***************************************************************************)
(* The claims about what a market-cap cycle checks and sends.              *)
(***************************************************************************)
\* the cycle of slot c has run and returned; cycleLog[c] is what it did
Completed(c) == cycles[c].pc = "idle" /\ cycleLog[c].checked # {}

\* u is enrolled for t with a set threshold that the cap the cycle computed reaches
Due(c, t, u) ==
  /\ SetHas(UsersOf(marketCapAlerts, t), u)
  /\ cycleLog[c].cap[t] # NULL
  /\ getPrefs(userPushPrefs, u).mcUsdThreshold \notin {NULL, 0}
  /\ cycleLog[c].cap[t] >= getPrefs(userPushPrefs, u).mcUsdThreshold

\* C11: in every real check cycle, the first and every later one, a subscriber
\* enrolled for a token whose computed market cap reaches the subscriber's
\* threshold is sent exactly one alert for that token: never two in a cycle,
\* and none is held back in a later cycle.
C11_ReAlertEveryCycle ==
  \A c \in Cycles :
    /\ \A p \in Tokens \X Users : cycleLog[c].alerts[p] <= 1
    /\ Completed(c) =>
         \A t \in Tokens, u \in Users : Due(c, t, u) => cycleLog[c].alerts[<<t, u>>] = 1

\* a second real check, one interval after the first, has returned and has
\* alerted a subscriber again
C11_Witness ==
  \E c \in Cycles, t \in Tokens, u \in Users :
    /\ Len(checkTimes) = 2
    /\ checkTimes[2] - checkTimes[1] >= MC_CHECK_INTERVAL
    /\ Completed(c)
    /\ Due(c, t, u)
    /\ cycleLog[c].alerts[<<t, u>>] = 1

\* the threshold of user u
ThresholdOf(u) == getPrefs(userPushPrefs, u).mcUsdThreshold

\* C12: the price is reserve(reference slot) / reserve(other slot), in either
\* orientation, and the market cap is the decimal-adjusted supply times the
\* price: 1000 / 500 = 2 and 10000 * 2 = 20000.  A cycle that has read the
\* supply and the decimals works with that cap, and a cycle that has returned
\* has alerted an enrolled subscriber exactly when the cap it computed reaches
\* the threshold: at a cap of 20000 the threshold 15000 is alerted, 20001 is not.
C12_PriceCapAndAlert ==
  /\ PriceInWOKB(PoolRef0) = [num |-> 1000, den |-> 500]
  /\ PriceInWOKB(PoolRef1) = [num |-> 1000, den |-> 500]
  /\ MarketCapUSD(PoolRef0, TRUE, TRUE) = 20000
  /\ MarketCapUSD(PoolRef1, TRUE, TRUE) = 20000
  /\ \A c \in Cycles :
       (/\ cycles[c].pc \in {"symbol", "send"}
        /\ cycles[c].supplyOk /\ cycles[c].decimalsOk
        /\ pool[cycles[c].token] \in {PoolRef0, PoolRef1})
         => cycles[c].cap = 20000
  /\ \A c \in Cycles : Completed(c) =>
       \A t \in Tokens, u \in Users :
         /\ cycleLog[c].alerts[<<t, u>>] = 1 <=> Due(c, t, u)
         /\ (cycleLog[c].cap[t] = 20000 /\ SetHas(UsersOf(marketCapAlerts, t), u)) =>
              /\ ThresholdOf(u) = 15000 => cycleLog[c].alerts[<<t, u>>] = 1
              /\ ThresholdOf(u) = 20001 => cycleLog[c].alerts[<<t, u>>] = 0

\* a cycle has returned that found a cap of 20000 with the reference asset in
\* token0 and in token1, alerted the subscriber with threshold 15000 and not
\* the one with threshold 20001
C12_Witness ==
  \E c \in Cycles :
    /\ Completed(c)
    /\ pool["A"] = PoolRef0 /\ pool["B"] = PoolRef1
    /\ cycleLog[c].cap["A"] = 20000 /\ cycleLog[c].cap["B"] = 20000
    /\ \E u, v \in Users :
         /\ ThresholdOf(u) = 15000 /\ cycleLog[c].alerts[<<"A", u>>] = 1
         /\ ThresholdOf(v) = 20001 /\ cycleLog[c].alerts[<<"A", v>>] = 0
         /\ cycleLog[c].alerts[<<"B", v>>] = 0

\* the pool has the reference asset in neither slot, or a reserve of zero
Unusable(p) ==
  \/ toLowerCase(p.token0) # "0xe538" /\ toLowerCase(p.token1) # "0xe538"
  \/ p.reserve0 = 0
  \/ p.reserve1 = 0

\* C13: a token whose pool has the reference asset in neither slot, or a
\* reserve of zero, gets no market cap and no alert to any subscriber in the
\* cycle; the step that skips it runs no catch (no error is logged) and goes
\* on with the next token of the registry, so a cycle that has returned has
\* checked every token.
C13_UnusablePoolSkipped ==
  /\ [](\A c \in Cycles, t \in Tokens :
          Unusable(pool[t]) =>
            /\ cycleLog[c].cap[t] = NULL
            /\ \A u \in Users : cycleLog[c].alerts[<<t, u>>] = 0)
  /\ [](\A c \in Cycles :
          Completed(c) => cycleLog[c].checked = {marketCapAlerts[i].addr :
                                                  i \in 1..Len(marketCapAlerts)})
  /\ [][\A c \in Cycles :
          (Token1Settle(c) /\ Unusable(pool[cycles[c].token])) =>
            /\ cycles'[c].caught \in {cycles[c].caught, "none"}
            /\ IF cycles[c].tpos < Len(marketCapAlerts)
               THEN /\ cycles'[c].pc = "supply"
                    /\ cycles'[c].token = marketCapAlerts[cycles[c].tpos + 1].addr
               ELSE cycles'[c].pc = "idle"
       ]_vars

\* a cycle has returned that skipped token A, whose pool has no reference
\* reserve, and went on to alert a subscriber of token B
C13_Witness ==
  \E c \in Cycles :
    /\ Completed(c)
    /\ pool["A"] = PoolDrained
    /\ \E u \in Users : SetHas(UsersOf(marketCapAlerts, "A"), u) /\ ThresholdOf(u) = 15000
    /\ cycleLog[c].checked = {"A", "B"}
    /\ \E u \in Users : cycleLog[c].alerts[<<"B", u>>] = 1

\* the users of the entry the cycle holds who come after position i and
\* whose set threshold the cap of the cycle reaches
StillDue(cyc, i) ==
  {j \in (i + 1)..Len(CycleUsers(cyc, marketCapAlerts)) :
     /\ ThresholdOf(CycleUsers(cyc, marketCapAlerts)[j]) \notin {NULL, 0}
     /\ cyc.cap >= ThresholdOf(CycleUsers(cyc, marketCapAlerts)[j])}

\* the cycle goes on with the next entry of the registry, or returns after the last
GoesOn(c) ==
  IF cycles[c].tpos < Len(marketCapAlerts)
  THEN /\ cycles'[c].pc = "supply"
       /\ cycles'[c].token = marketCapAlerts[cycles[c].tpos + 1].addr
  ELSE cycles'[c].pc = "idle"

\* C14: a chain read that throws while one token is checked, and a send that
\* throws for one subscriber, do not end the cycle: after the failed read the
\* cycle goes on with the next token, after the failed send with the next
\* subscriber of the token who is due (or the next token), and a cycle that
\* has returned has checked every token of the registry and has sent an
\* alert to every subscriber who was due.
C14_FailuresDoNotAbort ==
  /\ [](\A c \in Cycles : Completed(c) =>
          /\ cycleLog[c].checked = {marketCapAlerts[i].addr : i \in 1..Len(marketCapAlerts)}
          /\ \A t \in Tokens, u \in Users : Due(c, t, u) => cycleLog[c].alerts[<<t, u>>] >= 1)
  /\ [][\A c \in Cycles :
          /\ PoolReadFail(c) => GoesOn(c)
          /\ AlertSettle(c, FALSE) =>
               IF StillDue(cycles[c], cycles[c].upos) = {}
               THEN GoesOn(c)
               ELSE /\ cycles'[c].pc = "symbol"
                    /\ cycles'[c].token = cycles[c].token
                    /\ \E j \in StillDue(cycles[c], cycles[c].upos) :
                         /\ cycles'[c].upos = j
                         /\ cycles'[c].uid = CycleUsers(cycles[c], marketCapAlerts)[j]
                         /\ \A k \in StillDue(cycles[c], cycles[c].upos) : j <= k
       ]_vars

\* the send to the first subscriber of token A was rejected and the cycle is
\* in the send to the second one
C14_Witness ==
  \E c \in Cycles :
    /\ cycles[c].pc = "send"
    /\ cycles[c].caught = "send"
    /\ cycles[c].token = "A"
    /\ cycles[c].upos = 2
    /\ cycleLog[c].alerts[<<"A", CycleUsers(cycles[c], marketCapAlerts)[1]>>] = 1

(***************************************************************************)
(* The claims about the fan-out of a deployment event.                     *)
(***************************************************************************)
\* subscriber u is not held back by the media-link filter for a notification
\* that shows meta
Passes(u, meta) ==
  getPrefs(userPushPrefs, u).requireMediaLink =>
    (meta.web # UNSET \/ meta.tg # UNSET \/ meta.tw # UNSET)

\* the positions after i of the subscribers who pass the filter
LaterPassing(i, meta) ==
  {j \in (i + 1)..Len(subscribedUsers) : Passes(subscribedUsers[j], meta)}

\* C15: a send that is rejected is followed by the send to the next
\* subscriber who passes the media filter, so that when the fan-out of an
\* event is over every such subscriber has had a send attempt; and a log
\* that cannot be decoded does not end the batch: when a handler whose
\* query succeeded returns, every well-formed log of its range has been
\* taken up.
C15_FailuresAreIsolated ==
  [][\A h \in Slots :
       /\ SendSettle(h, FALSE) =>
            IF LaterPassing(handlers[h].ui, handlers[h].meta) = {}
            THEN handlers'[h].pc # "send"
            ELSE /\ handlers'[h].pc = "send"
                 /\ handlers'[h].cur = handlers[h].cur
                 /\ handlers'[h].ui \in LaterPassing(handlers[h].ui, handlers[h].meta)
                 /\ \A k \in LaterPassing(handlers[h].ui, handlers[h].meta) :
                      handlers'[h].ui <= k
                 /\ attempts'[<<KeyOf(handlers[h].cur), subscribedUsers[handlers'[h].ui]>>] = 1
       /\ (handlers[h].pc = "send" /\ handlers'[h].pc # "send") =>
            \A u \in Range(subscribedUsers) :
              Passes(u, handlers[h].meta) => attempts'[<<KeyOf(handlers[h].cur), u>>] = 1
       /\ (Ended(h) /\ queryOutcome'[h] = "ok") =>
            \A x \in Heights, key \in Keys :
              (handlers[h].from <= x /\ x <= handlers[h].to /\ KeyAt(key, x)) =>
                key \in sentKeys'
    ]_vars

\* the handler is in the send of the event that follows the undecodable log,
\* to the second subscriber, after the send to the first one was rejected
\* (the first one has a threshold and was not enrolled)
C15_Witness ==
  \E h \in Slots :
    /\ handlers[h].pc = "send"
    /\ handlers[h].cur = LogB1
    /\ handlers[h].ui = 2
    /\ attempts[<<KeyOf(LogB1), subscribedUsers[1]>>] = 1
    /\ ThresholdOf(subscribedUsers[1]) = 15000
    /\ ~SetHas(UsersOf(marketCapAlerts, "B"), subscribedUsers[1])

\* website, telegram and twitter as the six calls returned them: is one of
\* them a real value (not failed, not empty, not blank)
HasRealLink(raw) == \E v \in {raw.web, raw.tg, raw.tw} : v \notin {"", " "}

\* the number of notifications subscriber u is due for an event whose calls
\* returned raw
NoticesDue(u, raw) ==
  IF getPrefs(userPushPrefs, u).requireMediaLink /\ ~HasRealLink(raw) THEN 0 ELSE 1

\* the raw results that the meta of a handler can stem from
RawsOf(meta) == {raw \in FanoutMetas : Enriched(raw) = meta}

\* C16: for one deployment event a subscriber with requireMediaLink = true
\* gets no send when website, telegram and twitter are all unset and exactly
\* one send when one of them is a real value; a subscriber with
\* requireMediaLink = false gets exactly one send in both cases.  No send is
\* in flight to a subscriber who is due none, and when the fan-out of the
\* event is over every subscriber has had exactly the sends due.
C16_MediaFilter ==
  /\ [](\A h \in Slots : handlers[h].pc = "send" =>
          \A raw \in RawsOf(handlers[h].meta) :
            NoticesDue(subscribedUsers[handlers[h].ui], raw) = 1)
  /\ [][\A h \in Slots :
          /\ \A raw \in FanoutMetas :
               (EnrichSettle(h, raw) /\ handlers'[h].pc # "send") =>
                 \A u \in Range(subscribedUsers) :
                   /\ NoticesDue(u, raw) = 0
                   /\ attempts'[<<KeyOf(handlers[h].cur), u>>] = 0
          /\ (handlers[h].pc = "send" /\ handlers'[h].pc # "send") =>
               \A raw \in RawsOf(handlers[h].meta), u \in Range(subscribedUsers) :
                 attempts'[<<KeyOf(handlers[h].cur), u>>] = NoticesDue(u, raw)
       ]_vars

\* the fan-out of an event with no link has skipped the first subscriber, who
\* requires one, and is in the send to the second, who does not; the event
\* before it, with one real link, was sent to both
C16_Witness ==
  \E h \in Slots :
    /\ handlers[h].pc = "send"
    /\ handlers[h].cur = LogB1
    /\ ~HasRealLink(CHOOSE raw \in RawsOf(handlers[h].meta) : TRUE)
    /\ handlers[h].ui = 2
    /\ getPrefs(userPushPrefs, subscribedUsers[1]).requireMediaLink
    /\ ~getPrefs(userPushPrefs, subscribedUsers[2]).requireMediaLink
    /\ attempts[<<KeyOf(LogB1), subscribedUsers[1]>>] = 0
    /\ attempts[<<KeyOf(LogA1), subscribedUsers[1]>>] = 1
    /\ attempts[<<KeyOf(LogA1), subscribedUsers[2]>>] = 1

\* what the notification is to show for a fetched text: the sentinel for a
\* call that failed (the catch gives "") or returned an empty or blank
\* text, the fetched value otherwise
TextDue(v) == IF v \in {"", " "} THEN UNSET ELSE v

\* C17: whatever subset of the six metadata calls fails, the notification is
\* built and sent to the subscribers who pass the filter, showing the
\* sentinel for exactly the fields whose call failed or returned nothing and
\* the fetched value for every other field; no send of the event starts
\* while the six calls are pending.
C17_FailedFieldsOnly ==
  /\ [](\A h \in Slots : handlers[h].pc = "enrich" =>
          \A u \in Users : attempts[<<KeyOf(handlers[h].cur), u>>] = 0)
  /\ [][\A h \in Slots, raw \in FanoutMetas :
          EnrichSettle(h, raw) =>
            /\ (\E u \in Range(subscribedUsers) : NoticesDue(u, raw) = 1) =>
                 /\ handlers'[h].pc = "send"
                 /\ handlers'[h].cur = handlers[h].cur
                 /\ attempts'[<<KeyOf(handlers[h].cur), subscribedUsers[handlers'[h].ui]>>] = 1
            /\ (handlers'[h].pc = "send" /\ handlers'[h].cur = handlers[h].cur) =>
                 /\ handlers'[h].meta.symbol = TextDue(raw.symbol)
                 /\ handlers'[h].meta.decimals = (IF raw.decimals = "" THEN UNSET
                                                   ELSE raw.decimals)
                 /\ handlers'[h].meta.desc = TextDue(raw.desc)
                 /\ handlers'[h].meta.web = TextDue(raw.web)
                 /\ handlers'[h].meta.tg = TextDue(raw.tg)
                 /\ handlers'[h].meta.tw = TextDue(raw.tw)
       ]_vars

\* a notification is in flight for an event whose symbol call failed: the
\* symbol is shown as the sentinel, the five other fields as fetched
C17_Witness ==
  \E h \in Slots :
    /\ handlers[h].pc = "send"
    /\ handlers[h].meta = [symbol |-> UNSET, decimals |-> "18", web |-> "site",
                           tg |-> "t.me/x", tw |-> "x.com/y", desc |-> "text"]

\* the subscriber whose send handler h awaits, and the token of the event
Recipient(h) == subscribedUsers[handlers[h].ui]

\* C18: when the dispatch step of a subscriber ends (sendMessage has
\* settled, resolved or rejected), a subscriber who has a threshold set is
\* a member of the entry of the event's token.
C18_EnrolledAfterDispatch ==
  [][\A h \in Slots, ok \in BOOLEAN :
       (SendSettle(h, ok) /\ ThresholdOf(Recipient(h)) \notin {NULL, 0}) =>
         SetHas(UsersOf(marketCapAlerts', handlers[h].cur.addr), Recipient(h))
    ]_vars

\* the same for the dispatch steps whose send has resolved
C18_EnrolledAfterDelivery ==
  [][\A h \in Slots :
       (SendSettle(h, TRUE) /\ ThresholdOf(Recipient(h)) \notin {NULL, 0}) =>
         SetHas(UsersOf(marketCapAlerts', handlers[h].cur.addr), Recipient(h))
    ]_vars

\* C19: every block handler and every market-cap cycle that has started
\* returns, also when a call it awaits never responds.
C19_EveryCycleCompletes ==
  /\ \A h \in Slots : (handlers[h].pc # "idle") ~> (handlers[h].pc = "idle")
  /\ \A c \in Cycles : (cycles[c].pc # "idle") ~> (cycles[c].pc = "idle")

\* C20: the callback 'remove_alert_<t>' of subscriber u leaves u out of the
\* subscribers of t; the entry of t is kept exactly when another subscriber
\* is left in it; every other subscriber is in the set of t as before; every
\* other token has the entry and the subscribers it had; and when t had no
\* entry the registry is as it was.
C20_RemoveFrame ==
  [][\A u \in Users, t \in Tokens :
       RemoveAlert(u, t) =>
         /\ ~SetHas(UsersOf(marketCapAlerts', t), u)
         /\ HasEntry(marketCapAlerts', t) <=>
              \E v \in Users \ {u} : SetHas(UsersOf(marketCapAlerts, t), v)
         /\ \A v \in Users \ {u} :
              SetHas(UsersOf(marketCapAlerts', t), v) <=> SetHas(UsersOf(marketCapAlerts, t), v)
         /\ \A t2 \in Tokens \ {t} :
              /\ HasEntry(marketCapAlerts', t2) <=> HasEntry(marketCapAlerts, t2)
              /\ UsersOf(marketCapAlerts', t2) = UsersOf(marketCapAlerts, t2)
         /\ ~HasEntry(marketCapAlerts, t) => marketCapAlerts' = marketCapAlerts]_vars

\* the entry of token A was deleted when its last subscriber left, while
\* token B keeps its entry with both subscribers
C20_Witness ==
  /\ "A" \in deleted
  /\ ~HasEntry(marketCapAlerts, "A")
  /\ HasEntry(marketCapAlerts, "B")
  /\ \A v \in Users : SetHas(UsersOf(marketCapAlerts, "B"), v)

(***************************************************************************)
(* The chat handlers alone.  The behaviours start after some users sent    *)
(* /start and the fan-out enrolled some of them; they have since removed   *)
(* alerts and cleared their thresholds, so the registry holds any entries  *)
(* of subscribed users, and the users who never wrote have no preferences. *)
(***************************************************************************)
\* the Sets of users in their insertion orders, the empty one left out
UserLists ==
  {s \in UNION {[1..n -> Users] : n \in 1..MaxUsers} :
     \A i, j \in 1..Len(s) : s[i] = s[j] => i = j}

\* the Maps marketCapAlerts can be: one entry at most per token, no entry empty
Registries ==
  {<<>>}
    \cup {<<[addr |-> t, users |-> us]>> : t \in Tokens, us \in UserLists}
    \cup {m \in {<<[addr |-> t1, users |-> us1], [addr |-> t2, users |-> us2]>> :
                    t1 \in Tokens, t2 \in Tokens, us1 \in UserLists, us2 \in UserLists} :
            m[1].addr # m[2].addr}

\* the users of all entries of m
Watchers(m) == UNION {Range(m[i].users) : i \in 1..Len(m)}

ChatInit ==
  /\ chain = [x \in Heights |-> <<>>]
  /\ pool = [t \in Tokens |-> PoolRef0]
  /\ Loaded
  /\ subscribedUsers \in {SubSeq(AllUsers, 1, n) : n \in 1..MaxUsers}
  /\ userPushPrefs = [u \in Range(subscribedUsers) |-> DefaultPrefs]
  /\ marketCapAlerts \in {m \in Registries : Watchers(m) \subseteq Range(subscribedUsers)}

SpecChat == ChatInit /\ [][ChatNext]_vars

(***************************************************************************)
(* The claims about the chat handlers and the registries.                  *)
(***************************************************************************)
\* C21: the callback 'clear_all_alerts' of subscriber u leaves u in no entry
\* of marketCapAlerts; a token keeps its entry exactly when another
\* subscriber was in it; and every other subscriber is in the entries he or
\* she was in, also when the loop deletes entries of the Map it iterates.
C21_ClearAllFrame ==
  [][\A u \in Users :
       ClearAllAlerts(u) =>
         \A t \in Tokens :
           /\ ~SetHas(UsersOf(marketCapAlerts', t), u)
           /\ HasEntry(marketCapAlerts', t) <=>
                \E v \in Users \ {u} : SetHas(UsersOf(marketCapAlerts, t), v)
           /\ \A v \in Users \ {u} :
                SetHas(UsersOf(marketCapAlerts', t), v) <=> SetHas(UsersOf(marketCapAlerts, t), v)]_vars

\* both tokens had an entry and both entries were deleted, the registry is
\* empty again
C21_Witness ==
  /\ deleted = Tokens
  /\ marketCapAlerts = <<>>

\* the preferences are well-formed: a boolean, a language tag, and a
\* threshold that is unset or a positive integer
WellFormed(p) ==
  /\ p.requireMediaLink \in BOOLEAN
  /\ p.lang \in {"en", "zh"}
  /\ p.mcUsdThreshold = NULL \/ (p.mcUsdThreshold \in Nat /\ p.mcUsdThreshold > 0)

\* C22: in every state the preferences of every user who has any are
\* well-formed, whatever accepted threshold (0.5 included) and whatever
\* language argument the user sent.
C22_PrefsWellFormed ==
  \A u \in DOMAIN userPushPrefs : WellFormed(userPushPrefs[u])

\* C23: a step of the block handlers puts subscriber u into the entry of
\* token t only when it is the step after the send of an event of t to u has
\* resolved, u passes the media-link filter for that notification and the
\* threshold of u is set at that step; in every other case (send rejected,
\* threshold unset, subscriber held back by the filter) the members of
\* every entry stay as they are.
C23_EnrolOnlyAfterDelivery ==
  [][\A t \in Tokens, u \in Users :
       SetHas(UsersOf(marketCapAlerts', t), u) <=>
         \/ SetHas(UsersOf(marketCapAlerts, t), u)
         \/ \E h \in Slots :
              /\ SendSettle(h, TRUE)
              /\ handlers[h].cur.addr = t
              /\ Recipient(h) = u
              /\ Passes(u, handlers[h].meta)
              /\ ThresholdOf(u) # NULL]_vars

\* the send of the event of token B to the second subscriber, who has a
\* threshold, was rejected and left B without an entry, after the event of
\* token A was delivered and enrolled the second subscriber only: the first
\* one has no threshold
C23_Witness ==
  /\ ~sendOk
  /\ attempts[<<KeyOf(LogB1), 2>>] = 1
  /\ \A h \in Slots : handlers[h].pc = "idle"
  /\ ThresholdOf(2) = 15000
  /\ ThresholdOf(1) = NULL
  /\ attempts[<<KeyOf(LogA1), 1>>] = 1
  /\ marketCapAlerts = <<[addr |-> "A", users |-> <<2>>]>>

\* C25: a reply that is accepted as a threshold stores it, puts the
\* subscriber into every entry marketCapAlerts holds at that moment, creates
\* no entry and changes no other subscriber's membership; a reply that is
\* rejected leaves the subscriber's threshold and marketCapAlerts as they were.
C25_ReplyEnrolsInExisting ==
  [][\A u \in Users, reply \in Replies :
       ReplyMessage(u, reply) =>
         IF Accepted(reply)
         THEN /\ getPrefs(userPushPrefs', u).mcUsdThreshold = Floor(reply)
              /\ \A t \in Tokens :
                   /\ HasEntry(marketCapAlerts', t) <=> HasEntry(marketCapAlerts, t)
                   /\ HasEntry(marketCapAlerts, t) => SetHas(UsersOf(marketCapAlerts', t), u)
                   /\ \A v \in Users \ {u} :
                        SetHas(UsersOf(marketCapAlerts', t), v) <=>
                          SetHas(UsersOf(marketCapAlerts, t), v)
         ELSE /\ getPrefs(userPushPrefs', u).mcUsdThreshold = ThresholdOf(u)
              /\ marketCapAlerts' = marketCapAlerts]_vars

\* the second user, who never sent /start, has set a threshold and is in the
\* entries of both tokens, behind the first user
C25_Witness ==
  /\ subscribedUsers = <<1>>
  /\ ThresholdOf(2) = 15000
  /\ marketCapAlerts = <<[addr |-> "A", users |-> <<1, 2>>], [addr |-> "B", users |-> <<1, 2>>]>>

\* C26: in every state every user of every entry of marketCapAlerts is in
\* subscribedUsers.
C26_WatchersSubscribed == Watchers(marketCapAlerts) \subseteq Range(subscribedUsers)

(***************************************************************************)
(* The claims about overlapping block handlers and the cursor.             *)
(***************************************************************************)
\* the block handlers that have started and not yet returned
InFlight == {h \in Slots : handlers[h].pc # "idle"}

\* C24: at most one block handler is in flight: no handler computes its
\* range and starts its log query while an earlier one has not returned.
C24_OneHandlerInFlight == Cardinality(InFlight) <= 1

(***************************************************************************)
(* The retries of the block handler: 'block' events keep arriving, a       *)
(* handler runs on when the call it awaits has settled, and a log query    *)
(* that is tried again and again succeeds in the end.                      *)
(***************************************************************************)
RetryInit ==
  /\ chain = [x \in Heights |-> IF x = 1 THEN <<LogA1>> ELSE IF x = 2 THEN <<LogB1>> ELSE <<>>]
  /\ pool = [t \in Tokens |-> PoolRef0]
  /\ Loaded
  /\ subscribedUsers = <<1>>
  /\ userPushPrefs = [u \in {1} |-> DefaultPrefs]
  /\ marketCapAlerts = <<>>

RetryNext ==
  \/ \E bn \in Heights : BlockSignal(bn)
  \/ \E h \in Slots : HandlerStep(h)

SpecRetry ==
  /\ RetryInit
  /\ [][RetryNext]_vars
  /\ WF_vars(\E bn \in Heights : BlockSignal(bn))
  /\ \A h \in Slots : WF_vars(HandlerStep(h))
  /\ \A h \in Slots : SF_vars(GetLogsOk(h))

\* C27: once the first signal has arrived, every well-formed log at its
\* height or above is eventually decoded and its key recorded in sentKeys.
C27_EveryEventRecorded ==
  \A x \in Heights, log \in {LogA1, LogB1} :
    (firstSignal # 0 /\ firstSignal <= x /\ log \in Range(chain[x])) ~> (KeyOf(log) \in sentKeys)

\* the same for the behaviours whose first signal is above height 1
C27_RecordedAboveOne ==
  \A x \in Heights, log \in {LogA1, LogB1} :
    (firstSignal > 1 /\ firstSignal <= x /\ log \in Range(chain[x])) ~> (KeyOf(log) \in sentKeys)

====
